---- MODULE Spec2Model ----
(***************************************************************************)
(* A model of orwell-cli.py: hostlist expansion, the usage classifier, the *)
(* node registry built from the sacct, sinfo and gres streams, the         *)
(* highlight filter and the chassis layout renderer.                       *)
(*                                                                         *)
(* Python strings are modelled as sequences of one-character strings, so   *)
(* that slicing, index(), split(), startswith() and the substring test     *)
(* `a in b` are computed as Python computes them.                          *)
(***************************************************************************)
EXTENDS Integers, Sequences, FiniteSets, TLC

VARIABLES
    node_list,      \* expand_node_list: the hostlist string handed to it
    expansion,      \* expand_node_list: the hosts yielded and how iteration ended
    glyph_call,     \* get_node_glyph: the arguments of the call
    glyph_ret,      \* get_node_glyph: the glyph returned
    show_usage,     \* args['show']: cpu, ram, both or job
    node_info,      \* get_cluster_info: node name -> glyph, sets and job_info
    chassis_layout, \* get_cluster_info: chassis -> highest node number seen
    job_map,        \* add_job_info: job id -> glyph
    job_glyphs,     \* the cycle of gen_job_glyphs: how many glyphs were taken
    sacct_log,      \* the sacct lines add_job_info has processed, in order
    sinfo_log,      \* the sinfo lines add_node_info has processed, in order
    gres_log,       \* the gres.conf lines add_gpu_info has processed, in order
    filters,        \* the filters print_node_layout was called with
    output,         \* the rows print_node_layout printed
    pc              \* where show_cluster_info is

pure_vars == <<node_list, expansion, glyph_call, glyph_ret>>

run_vars == <<show_usage, node_info, chassis_layout, job_map, job_glyphs,
              sacct_log, sinfo_log, gres_log, filters, output, pc>>

vars == <<pure_vars, run_vars>>

(***************************************************************************)
(* Python string primitives                                                *)
(***************************************************************************)
Digits == <<"0", "1", "2", "3", "4", "5", "6", "7", "8", "9">>

IsDigit(c) == \E k \in 1..Len(Digits) : Digits[k] = c

DigitVal(c) == (CHOOSE k \in 1..Len(Digits) : Digits[k] = c) - 1

\* c in s, for a one-character c
HasChar(s, c) == \E k \in 1..Len(s) : s[k] = c

\* s.index(c), 0-based; -1 stands for the ValueError of a missing character
Index(s, c) ==
    IF HasChar(s, c)
    THEN (CHOOSE k \in 1..Len(s) : s[k] = c /\ \A j \in 1..(k - 1) : s[j] # c) - 1
    ELSE -1

\* s[b:e] with 0 <= b and 0 <= e <= len(s)
Slice(s, b, e) == IF e <= b THEN <<>> ELSE SubSeq(s, b + 1, e)

\* s.startswith(p)
StartsWith(s, p) == Len(p) <= Len(s) /\ SubSeq(s, 1, Len(p)) = p

\* p in s, for strings (the substring test)
IsSubstring(p, s) ==
    \E k \in 0..(Len(s) - Len(p)) : Slice(s, k, k + Len(p)) = p

\* s.split(c): always at least one field, empty fields kept
RECURSIVE Split(_, _)
Split(s, c) ==
    LET k == Index(s, c)
    IN  IF k < 0 THEN <<s>>
        ELSE <<Slice(s, 0, k)>> \o Split(Slice(s, k + 1, Len(s)), c)

\* s.split(c, 1) for an s that holds c
SplitOnce(s, c) ==
    LET k == Index(s, c)
    IN  <<Slice(s, 0, k), Slice(s, k + 1, Len(s))>>

\* whether int(s) succeeds: an optional sign, then one or more digits
IntOk(s) ==
    LET body == IF Len(s) > 0 /\ s[1] \in {"-", "+"} THEN Tail(s) ELSE s
    IN  Len(body) > 0 /\ \A k \in 1..Len(body) : IsDigit(body[k])

RECURSIVE DigitsVal(_)
DigitsVal(s) ==
    IF Len(s) = 0 THEN 0
    ELSE 10 * DigitsVal(SubSeq(s, 1, Len(s) - 1)) + DigitVal(s[Len(s)])

\* int(s), for an s with IntOk(s)
PyInt(s) ==
    IF s[1] = "-" THEN 0 - DigitsVal(Tail(s))
    ELSE IF s[1] = "+" THEN DigitsVal(Tail(s))
    ELSE DigitsVal(s)

\* str(i), for i >= 0
RECURSIVE Str(_)
Str(i) ==
    IF i < 10 THEN <<Digits[i + 1]>>
    ELSE Str(i \div 10) \o <<Digits[(i % 10) + 1]>>

\* F applied to the value of v, which is computed once
Eval(v, F(_)) == CHOOSE r \in { F(x) : x \in {v} } : TRUE

\* s.zfill(w), for an unsigned s
RECURSIVE Zfill(_, _)
Zfill(s, w) == IF Len(s) >= w THEN s ELSE Zfill(<<"0">> \o s, w)

(***************************************************************************)
(* expand_node_list.  A generator is modelled by what its consumer sees:   *)
(* the hosts yielded, in order, and whether iteration ended normally       *)
(* ("none") or by an uncaught ValueError.                                  *)
(***************************************************************************)
Yielded(hs) == [hosts |-> hs, error |-> "none"]

\* ExpandSubRange without the zfill to the width of the low literal
ExpandSubRangeNoZfill(prefix, sub_r) ==
    IF ~HasChar(sub_r, "-")
    THEN Yielded(<<prefix \o sub_r>>)
    ELSE LET lo == SplitOnce(sub_r, "-")[1]
             hi == SplitOnce(sub_r, "-")[2]
         IN  IF ~(IntOk(lo) /\ IntOk(hi))
             THEN [hosts |-> <<>>, error |-> "ValueError: invalid literal for int()"]
             ELSE LET n == PyInt(hi) + 1 - PyInt(lo)
                  IN  Yielded([i \in 1..(IF n > 0 THEN n ELSE 0) |->
                                  prefix \o Str(PyInt(lo) + i - 1)])

\* the names one sub-range of a bracket body yields
ExpandSubRange(prefix, sub_r) ==
    IF ~HasChar(sub_r, "-")
    THEN Yielded(<<prefix \o sub_r>>)
    ELSE LET lo == SplitOnce(sub_r, "-")[1]
             hi == SplitOnce(sub_r, "-")[2]
         IN  IF ~(IntOk(lo) /\ IntOk(hi))
             THEN [hosts |-> <<>>, error |-> "ValueError: invalid literal for int()"]
             ELSE LET n == PyInt(hi) + 1 - PyInt(lo)
                  IN  Yielded([i \in 1..(IF n > 0 THEN n ELSE 0) |->
                                  prefix \o Zfill(Str(PyInt(lo) + i - 1), Len(lo))])

\* the loop over p[r_beg + 1:r_end].split(','), stopping at the first error
RECURSIVE ExpandSubRanges(_, _, _)
ExpandSubRanges(prefix, subs, k) ==
    IF k > Len(subs) THEN Yielded(<<>>)
    ELSE LET here == ExpandSubRange(prefix, subs[k])
         IN  IF here.error # "none" THEN here
             ELSE LET rest == ExpandSubRanges(prefix, subs, k + 1)
                  IN  [hosts |-> here.hosts \o rest.hosts, error |-> rest.error]

_expand_part(p) ==
    IF HasChar(p, "[")
    THEN LET r_beg == Index(p, "[")
             r_end == Index(p, "]")
             prefix == Slice(p, 0, r_beg)
         IN  IF r_end < 0
             THEN [hosts |-> <<>>, error |-> "ValueError: substring not found"]
             ELSE ExpandSubRanges(prefix, Split(Slice(p, r_beg + 1, r_end), ","), 1)
    ELSE Yielded(<<p>>)

\* the scan of _expand_hostlist from character i on: the parts it cuts
RECURSIVE HostlistParts(_, _, _, _, _)
HostlistParts(s, i, in_bracket, p_beg, p_end) ==
    IF i >= Len(s) THEN <<Slice(s, p_beg, p_end)>>
    ELSE LET c == s[i + 1]
             cut == in_bracket = 0 /\ c = ","
             depth == in_bracket + (IF c = "[" THEN 1 ELSE 0)
                                 - (IF c = "]" THEN 1 ELSE 0)
         IN  IF cut
             THEN <<Slice(s, p_beg, p_end)>> \o HostlistParts(s, i + 1, depth, i + 1, i + 1)
             ELSE HostlistParts(s, i + 1, depth, p_beg, p_end + 1)

_expand_hostlist(s) == HostlistParts(s, 0, 0, 0, 0)

\* chain.from_iterable over the parts, stopping at the first error
RECURSIVE ChainParts(_, _)
ChainParts(parts, k) ==
    IF k > Len(parts) THEN Yielded(<<>>)
    ELSE LET here == _expand_part(parts[k])
         IN  IF here.error # "none" THEN here
             ELSE LET rest == ChainParts(parts, k + 1)
                  IN  [hosts |-> here.hosts \o rest.hosts, error |-> rest.error]

expand_node_list(s) == ChainParts(_expand_hostlist(s), 1)

(***************************************************************************)
(* The glyph tables and the usage classifier.  A glyph is a Python string: *)
(* a sequence of code points, each written as itself (ascii) or as its     *)
(* U+ name.  A usage fraction a / b is the pair <<a, b>> with b > 0, and   *)
(* fractions are compared and subtracted exactly.                          *)
(***************************************************************************)
char_types == <<"ascii", "utf8", "emoji">>

Less(x, y) == x[1] * y[2] < y[1] * x[2]

Minus(x, y) == <<x[1] * y[2] - y[1] * x[2], x[2] * y[2]>>

SameValue(x, y) == x[1] * y[2] = y[1] * x[2]

\* the OrderedDict of gen_usage_glyphs, as its items in insertion order
gen_usage_glyphs(char_type) ==
    IF char_type = "ascii"
    THEN [x \in 1..9 |-> [value |-> <<x, 10>>, char |-> Str(x)]]
    ELSE IF char_type = "utf8"
    THEN [x \in 1..7 |->
             [value |-> <<x, 8>>,
              char |-> << <<"U+2581", "U+2582", "U+2583", "U+2584",
                            "U+2585", "U+2586", "U+2587">>[x] >>]]
    ELSE [x \in 1..7 |->
             [value |-> <<x, 8>>,
              char |-> << <<"U+1F928", "U+1F914", "U+1F627", "U+1F62C",
                            "U+1F623", "U+1F92C", "U+1F624">>[x] >>]]

gen_state_glyphs(char_type) ==
    IF char_type = "ascii"
    THEN [not_a_node |-> <<" ">>, reserved |-> <<"r">>,
          idle |-> <<"O">>, down |-> <<"X">>]
    ELSE IF char_type = "utf8"
    THEN [not_a_node |-> <<" ">>, reserved |-> <<"r">>,
          idle |-> <<"U+25A2">>, down |-> <<"U+25BC">>]
    ELSE [not_a_node |-> <<"U+1F47B">>, reserved |-> <<"U+1F39F", "U+FE0F">>,
          idle |-> <<"U+1F4A4">>, down |-> <<"U+1F6A7">>]

\* usage_glyphs.keys()
Keys(usage_glyphs) == [k \in 1..Len(usage_glyphs) |-> usage_glyphs[k].value]

\* usage_glyphs[key]
Lookup(usage_glyphs, key) ==
    usage_glyphs[CHOOSE k \in 1..Len(usage_glyphs) : usage_glyphs[k].value = key].char

\* bisect.bisect_left(nums, my_num), the search between lo and hi
RECURSIVE Bisect(_, _, _, _)
Bisect(nums, my_num, lo, hi) ==
    IF lo < hi
    THEN LET mid == (lo + hi) \div 2
         IN  IF Less(nums[mid + 1], my_num)
             THEN Bisect(nums, my_num, mid + 1, hi)
             ELSE Bisect(nums, my_num, lo, mid)
    ELSE lo

bisect_left(nums, my_num) == Bisect(nums, my_num, 0, Len(nums))

\* get_closest with <= in place of <, so that a tie goes to the larger boundary
get_closest_tie_after(nums, my_num) ==
    LET pos == bisect_left(nums, my_num)
    IN  IF pos = 0 THEN nums[1]
        ELSE IF pos = Len(nums) THEN nums[Len(nums)]
        ELSE LET before == nums[pos]
                 after == nums[pos + 1]
             IN  IF ~Less(Minus(my_num, before), Minus(after, my_num))
                 THEN after
                 ELSE before

get_closest(nums, my_num) ==
    LET pos == bisect_left(nums, my_num)
    IN  IF pos = 0 THEN nums[1]
        ELSE IF pos = Len(nums) THEN nums[Len(nums)]
        ELSE LET before == nums[pos]
                 after == nums[pos + 1]
             IN  IF Less(Minus(after, my_num), Minus(my_num, before))
                 THEN after
                 ELSE before

mix == <<"m", "i", "x">>
alloc == <<"a", "l", "l", "o", "c">>
idle == <<"i", "d", "l", "e">>
reserv == <<"r", "e", "s", "e", "r", "v">>

get_node_glyph(state, usage, state_glyphs, usage_glyphs) ==
    IF StartsWith(state, mix) \/ StartsWith(state, alloc)
    THEN Lookup(usage_glyphs, get_closest(Keys(usage_glyphs), usage))
    ELSE IF StartsWith(state, idle) THEN state_glyphs.idle
    ELSE IF StartsWith(state, reserv) THEN state_glyphs.reserved
    ELSE state_glyphs.down

(***************************************************************************)
(* The registry of get_cluster_info.  A defaultdict is a function whose    *)
(* domain is the set of keys it holds; reading a missing key stores the    *)
(* default under it.                                                       *)
(***************************************************************************)
\* args['glyphs'] of the runs modelled: the default character set
glyphs == "ascii"

\* gen_job_glyphs('ascii'): string.ascii_letters + string.digits, to be cycled
gen_job_glyphs ==
    <<"a", "b", "c", "d", "e", "f", "g", "h", "i", "j", "k", "l", "m",
      "n", "o", "p", "q", "r", "s", "t", "u", "v", "w", "x", "y", "z",
      "A", "B", "C", "D", "E", "F", "G", "H", "I", "J", "K", "L", "M",
      "N", "O", "P", "Q", "R", "S", "T", "U", "V", "W", "X", "Y", "Z">>
    \o Digits

\* next(job_glyphs) after `taken` earlier calls
NextJobGlyph(taken) == <<gen_job_glyphs[(taken % Len(gen_job_glyphs)) + 1]>>

DefaultJob == [job_name |-> <<>>, user |-> <<>>, account |-> <<>>, job_partition |-> <<>>]

DefaultNode ==
    [glyph |-> gen_state_glyphs(glyphs).not_a_node, partition |-> {},
     feature |-> {}, gpu_type |-> {}, job_info |-> <<>>]

\* d[key], and d after the read
Node(ni, name) == IF name \in DOMAIN ni THEN ni[name] ELSE DefaultNode

Put(d, key, val) == [k \in DOMAIN d \cup {key} |-> IF k = key THEN val ELSE d[k]]

Job(node, jid) == IF jid \in DOMAIN node.job_info THEN node.job_info[jid] ELSE DefaultJob

\* node_regex.match(node_name).groups(), or <<>> when there is no match:
\* (\D+)(\d+)n?(\d*) from the start of the name
RECURSIVE Span(_, _, _)
Span(s, from, digit) ==
    IF from <= Len(s) /\ IsDigit(s[from]) = digit THEN Span(s, from + 1, digit) ELSE from

node_regex_groups(node_name) ==
    LET a == Span(node_name, 1, FALSE)
        b == Span(node_name, a, TRUE)
        c == IF b <= Len(node_name) /\ node_name[b] = "n" THEN b + 1 ELSE b
        d == Span(node_name, c, TRUE)
    IN  IF a = 1 \/ b = a THEN <<>>
        ELSE <<SubSeq(node_name, 1, a - 1), SubSeq(node_name, a, b - 1),
               SubSeq(node_name, c, d - 1)>>

\* split_node_name, for a name the pattern matches
split_node_name(node_name) ==
    LET groups == node_regex_groups(node_name)
    IN  IF groups[3] = <<>>
        THEN [chassis |-> groups[1], node_num |-> PyInt(groups[2])]
        ELSE [chassis |-> groups[1] \o groups[2], node_num |-> PyInt(groups[3])]

\* get_cpu_usage: in_use / cores of "in_use/idle/unavailable/cores"
get_cpu_usage(aiot) ==
    LET f == Split(aiot, "/") IN <<PyInt(f[1]), PyInt(f[4])>>

NA == <<"N", "/", "A">>

get_mem_usage(free_mem, total_mem) ==
    IF free_mem = NA THEN <<0, 1>>
    ELSE <<PyInt(total_mem) - PyInt(free_mem), PyInt(total_mem)>>

\* what get_cluster_info builds, with the locals of add_job_info
Registry(ni, cl, jm, jg, err) ==
    [node_info |-> ni, chassis_layout |-> cl, job_map |-> jm, job_glyphs |-> jg,
     error |-> err]

EmptyRegistry == Registry(<<>>, <<>>, <<>>, 0, "none")

\* JobIds without the base id of an array job
JobIdsAsGiven(job_id) == <<job_id>>

\* the body of add_job_info's loop for one node of the line's NodeList
JobIds(job_id) ==
    IF HasChar(job_id, "_") THEN <<job_id, Split(job_id, "_")[1]>> ELSE <<job_id>>

RECURSIVE SetJobInfo(_, _, _, _)
SetJobInfo(node, sacct, jids, k) ==
    IF k > Len(jids) THEN node
    ELSE SetJobInfo(
             [node EXCEPT !.job_info =
                 Put(@, jids[k],
                     [job_name |-> sacct.JobName, user |-> sacct.User,
                      account |-> sacct.Account, job_partition |-> sacct.Partition])],
             sacct, jids, k + 1)

\* AddJobToNode without the test "job_id not in job_map": every line takes
\* the next job glyph
AddJobToNodeNextGlyph(reg, sacct, node, show) ==
    LET with_job == SetJobInfo(Node(reg.node_info, node), sacct, JobIds(sacct.JobID), 1)
        jm == Put(reg.job_map, sacct.JobID, NextJobGlyph(reg.job_glyphs))
    IN  IF show = "job"
        THEN Registry(Put(reg.node_info, node, [with_job EXCEPT !.glyph = jm[sacct.JobID]]),
                      reg.chassis_layout, jm, reg.job_glyphs + 1, reg.error)
        ELSE [reg EXCEPT !.node_info = Put(reg.node_info, node, with_job)]

AddJobToNode(reg, sacct, node, show) ==
    LET with_job == SetJobInfo(Node(reg.node_info, node), sacct, JobIds(sacct.JobID), 1)
        fresh == sacct.JobID \notin DOMAIN reg.job_map
        jm == IF fresh
              THEN Put(reg.job_map, sacct.JobID, NextJobGlyph(reg.job_glyphs))
              ELSE reg.job_map
    IN  IF show = "job"
        THEN Registry(Put(reg.node_info, node, [with_job EXCEPT !.glyph = jm[sacct.JobID]]),
                      reg.chassis_layout, jm,
                      IF fresh THEN reg.job_glyphs + 1 ELSE reg.job_glyphs, reg.error)
        ELSE [reg EXCEPT !.node_info = Put(reg.node_info, node, with_job)]

RECURSIVE AddJobToNodes(_, _, _, _, _)
AddJobToNodes(reg, sacct, nodes, k, show) ==
    IF k > Len(nodes) THEN reg
    ELSE Eval(AddJobToNode(reg, sacct, nodes[k], show),
              LAMBDA next : AddJobToNodes(next, sacct, nodes, k + 1, show))

\* add_job_info, one sacct line after the header
add_job_line(reg, sacct, show) ==
    Eval(expand_node_list(sacct.NodeList),
         LAMBDA nodes : [AddJobToNodes(reg, sacct, nodes.hosts, 1, show)
                             EXCEPT !.error = nodes.error])

\* NodeGlyph with an else branch in place of "elif show_usage == 'both'", so
\* that the glyph is also set with --show job
NodeGlyphAnyMode(old, sinfo, show) ==
    LET cpu == get_node_glyph(sinfo.State, get_cpu_usage(sinfo.CPUS),
                              gen_state_glyphs(glyphs), gen_usage_glyphs(glyphs))
        mem == get_node_glyph(sinfo.State, get_mem_usage(sinfo.FREE_MEM, sinfo.MEMORY),
                              gen_state_glyphs(glyphs), gen_usage_glyphs(glyphs))
    IN  IF show = "cpu" THEN cpu
        ELSE IF show = "ram" THEN mem
        ELSE cpu \o mem

\* the glyph add_node_info gives the node of one sinfo line
NodeGlyph(old, sinfo, show) ==
    LET cpu == get_node_glyph(sinfo.State, get_cpu_usage(sinfo.CPUS),
                              gen_state_glyphs(glyphs), gen_usage_glyphs(glyphs))
        mem == get_node_glyph(sinfo.State, get_mem_usage(sinfo.FREE_MEM, sinfo.MEMORY),
                              gen_state_glyphs(glyphs), gen_usage_glyphs(glyphs))
    IN  IF show = "cpu" THEN cpu
        ELSE IF show = "ram" THEN mem
        ELSE IF show = "both" THEN cpu \o mem
        ELSE old

\* add_node_info, one sinfo line after the header
add_node_line(reg, sinfo, show) ==
    IF node_regex_groups(sinfo.HOSTNAMES) = <<>>
    THEN [reg EXCEPT !.error = "AttributeError: 'NoneType' object has no attribute 'groups'"]
    ELSE LET name == split_node_name(sinfo.HOSTNAMES)
             node_name == sinfo.HOSTNAMES
             node == Node(reg.node_info, node_name)
             feats == Split(sinfo.AVAIL_FEATURES, ",")
             seen == IF name.chassis \in DOMAIN reg.chassis_layout
                     THEN reg.chassis_layout[name.chassis] ELSE 1
         IN  [reg EXCEPT
                 !.node_info =
                     Put(reg.node_info, node_name,
                         [node EXCEPT
                             !.glyph = NodeGlyph(node.glyph, sinfo, show),
                             !.partition = @ \cup {sinfo.PARTITION},
                             !.feature = @ \cup {feats[k] : k \in 1..Len(feats)}]),
                 !.chassis_layout =
                     Put(reg.chassis_layout, name.chassis,
                         IF seen < name.node_num THEN name.node_num ELSE seen)]

\* add_gpu_info, for one gres.conf line that gpu_regex matches: get_gpus yields
\* (node, gpu) for the nodes of the line's hostlist, and each node is expanded again
RECURSIVE AddGpuToHosts(_, _, _, _)
AddGpuToHosts(ni, hosts, j, gpu) ==
    IF j > Len(hosts) THEN ni
    ELSE Eval(Put(ni, hosts[j], [Node(ni, hosts[j]) EXCEPT !.gpu_type = @ \cup {gpu}]),
              LAMBDA next : AddGpuToHosts(next, hosts, j + 1, gpu))

AddGpuToNode(reg, node, gpu) ==
    Eval(expand_node_list(node),
         LAMBDA again : [reg EXCEPT !.node_info = AddGpuToHosts(@, again.hosts, 1, gpu),
                                    !.error = again.error])

RECURSIVE AddGpuToNodes(_, _, _, _)
AddGpuToNodes(reg, nodes, k, gpu) ==
    IF k > Len(nodes) \/ reg.error # "none" THEN reg
    ELSE Eval(AddGpuToNode(reg, nodes[k], gpu),
              LAMBDA next : AddGpuToNodes(next, nodes, k + 1, gpu))

add_gpu_line(reg, gres) ==
    Eval(expand_node_list(gres.NodeName),
         LAMBDA nodes :
             Eval(AddGpuToNodes(reg, nodes.hosts, 1, gres.Type),
                  LAMBDA done : IF done.error # "none" THEN done
                                ELSE [done EXCEPT !.error = nodes.error]))

(***************************************************************************)
(* The highlight filter.                                                   *)
(***************************************************************************)
filter_names ==
    <<"partition", "feature", "gpu_type", "job_id", "job_partition", "user", "account">>

RECURSIVE Flatten(_)
Flatten(seqs) == IF Len(seqs) = 0 THEN <<>> ELSE Head(seqs) \o Flatten(Tail(seqs))

\* get_filters: args maps the options given (the others are None) to the list
\* of their comma separated values
get_filters(args) ==
    [filt \in DOMAIN args |->
        Flatten([k \in 1..Len(args[filt]) |-> Split(args[filt][k], ",")])]

_filter(bool_list) ==
    IF Len(bool_list) = 0 THEN FALSE
    ELSE \A k \in 1..Len(bool_list) : bool_list[k]

\* the <<filter, value>> pairs the loops over `names` visit, in order
FilterValues(filts, names) ==
    Flatten([n \in 1..Len(names) |->
                IF names[n] \in DOMAIN filts
                THEN [k \in 1..Len(filts[names[n]]) |-> <<names[n], filts[names[n]][k]>>]
                ELSE <<>>])

node_filters == <<"partition", "feature", "gpu_type">>

job_filters == <<"job_partition", "user", "account">>

\* JobIdBools with the job filters tested on every job of the node, as in the
\* branch without job_id
JobIdBoolsAnyJob(node, filts, job_id) ==
    LET pairs == FilterValues(filts, job_filters)
    IN  [bools |-> <<job_id \in DOMAIN node.job_info>>
                       \o [j \in 1..Len(pairs) |->
                              \E jid \in DOMAIN node.job_info :
                                  IsSubstring(pairs[j][2], node.job_info[jid][pairs[j][1]])],
         node |-> node]

\* the job_id branch for one job id: the bools appended, and the node after
\* the reads of node['job_info'][job_id]
JobIdBools(node, filts, job_id) ==
    LET pairs == FilterValues(filts, job_filters)
        job == Job(node, job_id)
    IN  [bools |-> <<job_id \in DOMAIN node.job_info>>
                       \o [j \in 1..Len(pairs) |->
                              IsSubstring(pairs[j][2], job[pairs[j][1]])],
         node |-> IF Len(pairs) = 0 THEN node
                  ELSE [node EXCEPT !.job_info = Put(@, job_id, job)]]

\* the loop over filters['job_id'] from the k-th job id on
RECURSIVE JobIdLoop(_, _, _, _)
JobIdLoop(node, filts, k, bools) ==
    IF k > Len(filts["job_id"]) THEN [bools |-> bools, node |-> node]
    ELSE Eval(JobIdBools(node, filts, filts["job_id"][k]),
              LAMBDA one : JobIdLoop(one.node, filts, k + 1, bools \o one.bools))

\* filter_node: the verdict, and the node after the call
filter_node(node, filts) ==
    LET direct == FilterValues(filts, node_filters)
        first == [j \in 1..Len(direct) |-> direct[j][2] \in node[direct[j][1]]]
        pairs == FilterValues(filts, job_filters)
    IN  IF "job_id" \in DOMAIN filts
        THEN Eval(JobIdLoop(node, filts, 1, first),
                  LAMBDA by_id : [highlight |-> _filter(by_id.bools), node |-> by_id.node])
        ELSE [highlight |->
                  _filter(first \o
                      [j \in 1..Len(pairs) |->
                          \E jid \in DOMAIN node.job_info :
                              IsSubstring(pairs[j][2], node.job_info[jid][pairs[j][1]])]),
              node |-> node]

(***************************************************************************)
(* print_node_layout                                                       *)
(***************************************************************************)
\* colors[args['color']] of the runs modelled: the default colour, red
highlight_color == <<"3", "1">>

highlight_node(text, color) ==
    <<"ESC", "[">> \o color \o <<"m">> \o text \o <<"ESC", "[", "0", "m">>

\* the order of one-character strings: digits, then upper case, then lower case
CharOrder ==
    Digits \o
    <<"A", "B", "C", "D", "E", "F", "G", "H", "I", "J", "K", "L", "M",
      "N", "O", "P", "Q", "R", "S", "T", "U", "V", "W", "X", "Y", "Z",
      "a", "b", "c", "d", "e", "f", "g", "h", "i", "j", "k", "l", "m",
      "n", "o", "p", "q", "r", "s", "t", "u", "v", "w", "x", "y", "z">>

Ord(c) == CHOOSE k \in 1..Len(CharOrder) : CharOrder[k] = c

\* a < b for strings
RECURSIVE StrLess(_, _)
StrLess(a, b) ==
    IF Len(b) = 0 THEN FALSE
    ELSE IF Len(a) = 0 THEN TRUE
    ELSE IF a[1] = b[1] THEN StrLess(Tail(a), Tail(b))
    ELSE Ord(a[1]) < Ord(b[1])

\* sorted(keys)
RECURSIVE Sorted(_)
Sorted(keys) ==
    IF keys = {} THEN <<>>
    ELSE LET least == CHOOSE a \in keys : \A b \in keys \ {a} : StrLess(a, b)
         IN  <<least>> \o Sorted(keys \ {least})

\* get_pad, for a list that is not empty
get_pad(list_of_things) ==
    (CHOOSE n \in {Len(t) : t \in list_of_things} :
        \A t \in list_of_things : Len(t) <= n) + 2

\* s.ljust(n)
RECURSIVE Ljust(_, _)
Ljust(t, n) == IF Len(t) >= n THEN t ELSE Ljust(t \o <<" ">>, n)

\* the name print_node_layout builds for node n of chassis chas
LayoutName(chas, n) ==
    IF StartsWith(chas, <<"c">>)
    THEN chas \o <<"n">> \o Zfill(Str(n), 2)
    ELSE chas \o Zfill(Str(n), 2)

\* Highlight with "highlight = True" as the value before the test of filters
HighlightByDefault(node, filts) ==
    IF Cardinality(DOMAIN filts) > 0 THEN filter_node(node, filts)
    ELSE [highlight |-> TRUE, node |-> node]

\* whether the node is to be highlighted, and the node after the decision
Highlight(node, filts) ==
    IF Cardinality(DOMAIN filts) > 0 THEN filter_node(node, filts)
    ELSE [highlight |-> FALSE, node |-> node]

\* LayoutCell without the second absent glyph of --show both
LayoutCellSingle(found, filts, show) ==
    Eval(Highlight(found, filts),
         LAMBDA verdict :
             [node |-> verdict.node,
              text |-> IF verdict.highlight
                       THEN highlight_node(found.glyph, highlight_color)
                       ELSE found.glyph])

\* the body of the loop over n: the node after it and the text appended
LayoutCell(found, filts, show) ==
    LET absent == gen_state_glyphs(glyphs).not_a_node
        node == IF show = "both" /\ found.glyph = absent
                THEN [found EXCEPT !.glyph = @ \o absent]
                ELSE found
    IN  Eval(Highlight(node, filts),
             LAMBDA verdict :
                 [node |-> verdict.node,
                  text |-> IF verdict.highlight
                           THEN highlight_node(node.glyph, highlight_color)
                           ELSE node.glyph])

\* the loop over n: the registry after it and the line built
RECURSIVE LayoutLine(_, _, _, _, _, _, _)
LayoutLine(ni, chas, n, last, filts, show, line) ==
    IF n > last THEN [node_info |-> ni, line |-> line]
    ELSE Eval(LayoutCell(Node(ni, LayoutName(chas, n)), filts, show),
              LAMBDA cell :
                  Eval(Put(ni, LayoutName(chas, n), cell.node),
                       LAMBDA next :
                           LayoutLine(next, chas, n + 1, last, filts, show,
                                      Append(line, cell.text))))

RECURSIVE Join(_, _)
Join(parts, sep) ==
    IF Len(parts) = 0 THEN <<>>
    ELSE IF Len(parts) = 1 THEN parts[1]
    ELSE parts[1] \o sep \o Join(Tail(parts), sep)

\* what print() writes for one chassis
LayoutRow(chassis, chas, line) ==
    [chassis |-> chas,
     label |-> Ljust(chas \o <<":", " ">>, get_pad(DOMAIN chassis)),
     line |-> line,
     text |-> <<"|">> \o Join(line, <<"|">>) \o <<"|">>]

\* the loop over sorted(chassis.keys()): the registry after it and the rows printed
RECURSIVE LayoutRows(_, _, _, _, _, _, _)
LayoutRows(ni, chassis, order, k, filts, show, rows) ==
    IF k > Len(order) THEN [node_info |-> ni, rows |-> rows]
    ELSE Eval(LayoutLine(ni, order[k], 1, chassis[order[k]], filts, show, <<>>),
              LAMBDA row :
                  LayoutRows(row.node_info, chassis, order, k + 1, filts, show,
                             Append(rows, LayoutRow(chassis, order[k], row.line))))

\* print_node_layout: the registry after it, the rows printed, and the error
\* that ended it (max() of no chassis at all)
print_node_layout(ni, chassis, filts, show) ==
    IF DOMAIN chassis = {}
    THEN [node_info |-> ni, rows |-> <<>>,
          error |-> "ValueError: max() arg is an empty sequence"]
    ELSE Eval(LayoutRows(ni, chassis, Sorted(DOMAIN chassis), 1, filts, show, <<>>),
              LAMBDA done : [node_info |-> done.node_info, rows |-> done.rows,
                             error |-> "none"])

(***************************************************************************)
(* Hostlist strings handed to expand_node_list: one to MaxSegments         *)
(* segments joined by commas, and every string obtained from such a list   *)
(* by dropping one character (which is how a bracket goes missing).        *)
(***************************************************************************)
MaxSegments == 2

HostSegments ==
    { <<"a">>,
      <<"x", "-", "y">>,
      <<"b", "[", "1", "-", "2", "]">>,
      <<"c", "1", "3", "n", "[", "0", "1", "-", "0", "3", ",", "0", "5", "]">>,
      <<"n", "[", "0", "9", "-", "1", "1", ",", "9", "9", "-", "1", "0", "1", "]">>,
      <<"g", "[", "3", "-", "1", ",", "x", ",", "]">>,
      <<"h", "[", "]">>,
      <<"a", "[", "1", "]", "b">>,
      <<"a", "[", "[", "1", "]", "]">>,
      <<"a", "[", "1", "-", "2", "-", "3", "]">> }

DropChar(s, k) == SubSeq(s, 1, k - 1) \o SubSeq(s, k + 1, Len(s))

SegmentLists == UNION { [1..n -> HostSegments] : n \in 1..MaxSegments }

JoinedHostlists == { Join(l, <<",">>) : l \in SegmentLists }

Hostlists ==
    JoinedHostlists
        \cup UNION { { DropChar(s, k) : k \in 1..Len(s) } : s \in JoinedHostlists }

(***************************************************************************)
(* expand_node_list on its own: the hostlist is drawn, then expanded.      *)
(***************************************************************************)
NotRun == [hosts |-> <<>>, error |-> "not run"]

NoCall == [state |-> <<>>, usage |-> <<0, 1>>, char_type |-> "none"]

InitExpand ==
    /\ node_list \in Hostlists
    /\ expansion = NotRun
    /\ glyph_call = NoCall
    /\ glyph_ret = <<>>
    /\ show_usage = "cpu"
    /\ node_info = <<>>
    /\ chassis_layout = <<>>
    /\ job_map = <<>>
    /\ job_glyphs = 0
    /\ sacct_log = <<>>
    /\ sinfo_log = <<>>
    /\ gres_log = <<>>
    /\ filters = <<>>
    /\ output = [rows |-> <<>>, error |-> "not run"]
    /\ pc = "not run"

\* the consumer iterates expand_node_list(node_list) to its end
Expand ==
    /\ expansion = NotRun
    /\ expansion' = expand_node_list(node_list)
    /\ UNCHANGED <<node_list, glyph_call, glyph_ret, run_vars>>

NextExpand == Expand

SpecExpand == InitExpand /\ [][NextExpand]_vars

(***************************************************************************)
(* The reference expansion of the hostlist notation.                       *)
(***************************************************************************)
\* bracket depth after the first k characters of s
RECURSIVE Depth(_, _)
Depth(s, k) ==
    IF k = 0 THEN 0
    ELSE Depth(s, k - 1) + (IF s[k] = "[" THEN 1 ELSE 0) - (IF s[k] = "]" THEN 1 ELSE 0)

Balanced(s) == Depth(s, Len(s)) = 0 /\ \A k \in 0..Len(s) : Depth(s, k) >= 0

\* the positions of the commas at depth 0, and the segments between them
TopCommas(s) == { k \in 1..Len(s) : s[k] = "," /\ Depth(s, k - 1) = 0 }

RefSegmentCount(s) == Cardinality(TopCommas(s)) + 1

RefSegment(s, n) ==
    LET cuts == {0} \cup TopCommas(s) \cup {Len(s) + 1}
        from == CHOOSE k \in cuts : Cardinality({j \in cuts : j < k}) = n - 1
        upto == CHOOSE k \in cuts : Cardinality({j \in cuts : j < k}) = n
    IN  SubSeq(s, from + 1, upto - 1)

Count(s, c) == Cardinality({k \in 1..Len(s) : s[k] = c})

AllDigits(s) == Len(s) > 0 /\ \A k \in 1..Len(s) : s[k] \in {Digits[d] : d \in 1..10}

\* the value of a digit string, most significant digit first
DecimalValue(s) ==
    LET pow[e \in 0..Len(s)] == IF e = 0 THEN 1 ELSE 10 * pow[e - 1]
        sum[k \in 0..Len(s)] ==
            IF k = 0 THEN 0 ELSE sum[k - 1] + DigitVal(s[k]) * pow[Len(s) - k]
    IN  sum[Len(s)]

\* the decimal digits of i, padded with zeros on the left to width w
Padded(i, w) ==
    LET width == CHOOSE n \in 1..20 : i < 10 ^ n /\ (n = 1 \/ i >= 10 ^ (n - 1))
        len == IF width > w THEN width ELSE w
    IN  [k \in 1..len |-> Digits[((i \div (10 ^ (len - k))) % 10) + 1]]

\* body: the text between the brackets of a segment prefix[items]
SegBody(seg) == SubSeq(seg, Index(seg, "[") + 2, Len(seg) - 1)

SegPrefix(seg) == SubSeq(seg, 1, Index(seg, "["))

ItemCommas(body) == { k \in 1..Len(body) : body[k] = "," }

RefItem(body, n) ==
    LET cuts == {0} \cup ItemCommas(body) \cup {Len(body) + 1}
        from == CHOOSE k \in cuts : Cardinality({j \in cuts : j < k}) = n - 1
        upto == CHOOSE k \in cuts : Cardinality({j \in cuts : j < k}) = n
    IN  SubSeq(body, from + 1, upto - 1)

RefItems(seg) ==
    [n \in 1..(Cardinality(ItemCommas(SegBody(seg))) + 1) |-> RefItem(SegBody(seg), n)]

IsRange(item) ==
    /\ Count(item, "-") = 1
    /\ AllDigits(SubSeq(item, 1, Index(item, "-")))
    /\ AllDigits(SubSeq(item, Index(item, "-") + 2, Len(item)))

\* a segment the reference speaks of: no bracket, or prefix[items] whose items
\* are dash-free or of the form lo-hi
RefSegmentOk(seg) ==
    \/ Count(seg, "[") = 0 /\ Count(seg, "]") = 0
    \/ /\ Count(seg, "[") = 1 /\ Count(seg, "]") = 1 /\ seg[Len(seg)] = "]"
       /\ \A n \in 1..Len(RefItems(seg)) :
              Count(RefItems(seg)[n], "-") = 0 \/ IsRange(RefItems(seg)[n])

RefExpandItem(prefix, item) ==
    IF Count(item, "-") = 0 THEN <<prefix \o item>>
    ELSE LET lo == SubSeq(item, 1, Index(item, "-"))
             hi == SubSeq(item, Index(item, "-") + 2, Len(item))
             n == DecimalValue(hi) - DecimalValue(lo) + 1
         IN  [i \in 1..(IF n > 0 THEN n ELSE 0) |->
                 prefix \o Padded(DecimalValue(lo) + i - 1, Len(lo))]

RefExpandSegment(seg) ==
    IF Count(seg, "[") = 0 THEN <<seg>>
    ELSE Flatten([n \in 1..Len(RefItems(seg)) |->
                     RefExpandItem(SegPrefix(seg), RefItems(seg)[n])])

RefExpand(s) ==
    Flatten([n \in 1..RefSegmentCount(s) |-> RefExpandSegment(RefSegment(s, n))])

\* the hostlist strings the reference is defined on
InReferenceDomain(s) ==
    /\ Balanced(s)
    /\ \A n \in 1..RefSegmentCount(s) : RefSegmentOk(RefSegment(s, n))

(***************************************************************************)
(* One run of show_cluster_info: add_job_info, add_node_info and           *)
(* add_gpu_info consume their streams line by line, in that order, and     *)
(* print_node_layout prints.  The lines and the filter options are drawn   *)
(* from the sets below; a run reads at most MaxLines lines in all.         *)
(***************************************************************************)
MaxLines == 3

SinfoLines ==
    { [HOSTNAMES |-> <<"c", "1", "n", "0", "1">>, State |-> <<"m", "i", "x", "e", "d">>,
       CPUS |-> <<"4", "/", "4", "/", "0", "/", "8">>,
       FREE_MEM |-> <<"3", "2">>, MEMORY |-> <<"1", "2", "8">>,
       PARTITION |-> <<"g", "p", "u">>, AVAIL_FEATURES |-> <<"f", "1", ",", "f", "2">>],
      [HOSTNAMES |-> <<"c", "1", "n", "0", "1">>, State |-> <<"m", "i", "x", "e", "d">>,
       CPUS |-> <<"4", "/", "4", "/", "0", "/", "8">>,
       FREE_MEM |-> <<"3", "2">>, MEMORY |-> <<"1", "2", "8">>,
       PARTITION |-> <<"d", "a", "y">>, AVAIL_FEATURES |-> <<"f", "1", ",", "f", "2">>],
      [HOSTNAMES |-> <<"c", "1", "n", "0", "3">>, State |-> <<"i", "d", "l", "e">>,
       CPUS |-> <<"0", "/", "8", "/", "0", "/", "8">>,
       FREE_MEM |-> <<"N", "/", "A">>, MEMORY |-> <<"1", "2", "8">>,
       PARTITION |-> <<"d", "a", "y">>, AVAIL_FEATURES |-> <<"f", "1">>],
      [HOSTNAMES |-> <<"g", "0", "2">>, State |-> <<"a", "l", "l", "o", "c", "a", "t", "e", "d">>,
       CPUS |-> <<"8", "/", "0", "/", "0", "/", "8">>,
       FREE_MEM |-> <<"1", "6">>, MEMORY |-> <<"6", "4">>,
       PARTITION |-> <<"g", "p", "u">>, AVAIL_FEATURES |-> <<"f", "2">>],
      [HOSTNAMES |-> <<"c", "0", "2">>, State |-> <<"d", "o", "w", "n", "*">>,
       CPUS |-> <<"0", "/", "0", "/", "8", "/", "8">>,
       FREE_MEM |-> <<"6", "4">>, MEMORY |-> <<"6", "4">>,
       PARTITION |-> <<"d", "a", "y">>, AVAIL_FEATURES |-> <<"f", "1">>],
      [HOSTNAMES |-> <<"b", "0", "0">>, State |-> <<"r", "e", "s", "e", "r", "v", "e", "d">>,
       CPUS |-> <<"0", "/", "8", "/", "0", "/", "8">>,
       FREE_MEM |-> <<"6", "4">>, MEMORY |-> <<"6", "4">>,
       PARTITION |-> <<"d", "a", "y">>, AVAIL_FEATURES |-> <<"f", "1">>] }

SacctLines ==
    { [JobID |-> <<"1", "2", "3">>, JobName |-> <<"s", "i", "m">>, User |-> <<"a", "l">>,
       Account |-> <<"l", "a", "b">>, NodeList |-> <<"c", "1", "n", "0", "1">>,
       Partition |-> <<"b", "a", "t", "c", "h">>],
      [JobID |-> <<"4", "5", "6">>, JobName |-> <<"f", "i", "t">>, User |-> <<"b", "o">>,
       Account |-> <<"l", "a", "b">>, NodeList |-> <<"c", "1", "n", "[", "0", "1", "-", "0", "2", "]">>,
       Partition |-> <<"d", "a", "y">>],
      [JobID |-> <<"1", "2", "3", "_", "4">>, JobName |-> <<"a", "r", "r">>, User |-> <<"a", "l">>,
       Account |-> <<"o", "p", "s">>, NodeList |-> <<"g", "0", "2">>,
       Partition |-> <<"d", "a", "y">>],
      [JobID |-> <<"1", "2", "3", "_", "5">>, JobName |-> <<"a", "r", "r">>, User |-> <<"b", "o">>,
       Account |-> <<"o", "p", "s">>, NodeList |-> <<"g", "0", "2", ",", "c", "1", "n", "0", "1">>,
       Partition |-> <<"g", "p", "u">>] }

GresLines ==
    { [NodeName |-> <<"g", "[", "0", "1", "-", "0", "2", "]">>, Type |-> <<"v", "1", "0", "0">>],
      [NodeName |-> <<"c", "1", "n", "0", "1">>, Type |-> <<"a", "1", "0", "0">>] }

FilterArgs ==
    { <<>>,
      [partition |-> <<<<"g", "p", "u">>>>],
      [partition |-> <<<<"g", "p", "u", ",", "d", "e", "b", "u", "g">>>>],
      [partition |-> <<<<"d", "a", "y">>, <<"g", "p", "u">>>>],
      [partition |-> <<<<"g", "p", "u">>>>, user |-> <<<<"a", "l">>>>],
      [feature |-> <<<<"f", "2">>>>, gpu_type |-> <<<<"v", "1", "0", "0">>>>],
      [job_id |-> <<<<"1", "2", "3">>>>],
      [job_id |-> <<<<"1", "2", "3">>>>, job_partition |-> <<<<"d", "a", "y">>>>],
      [job_id |-> <<<<"9", "9", "9">>>>, user |-> <<<<"a", "l">>>>],
      [user |-> <<<<"b", "o">>>>],
      [account |-> <<<<"l", "a", "b">>>>, job_partition |-> <<<<"d", "a", "y">>>>] }

ShowChoices == {"cpu", "ram", "both", "job"}

NoOutput == [rows |-> <<>>, error |-> "not run"]

Init ==
    /\ show_usage \in ShowChoices
    /\ node_info = <<>>
    /\ chassis_layout = <<>>
    /\ job_map = <<>>
    /\ job_glyphs = 0
    /\ sacct_log = <<>>
    /\ sinfo_log = <<>>
    /\ gres_log = <<>>
    /\ filters = <<>>
    /\ output = NoOutput
    /\ pc = "add_job_info"
    /\ node_list = <<>>
    /\ expansion = NotRun
    /\ glyph_call = NoCall
    /\ glyph_ret = <<>>

Current == Registry(node_info, chassis_layout, job_map, job_glyphs, "none")

LinesRead == Len(sacct_log) + Len(sinfo_log) + Len(gres_log)

\* the registry moves to reg; an uncaught exception ends the run
Ingested(reg, at) ==
    /\ node_info' = reg.node_info
    /\ chassis_layout' = reg.chassis_layout
    /\ job_map' = reg.job_map
    /\ job_glyphs' = reg.job_glyphs
    /\ pc' = IF reg.error = "none" THEN at ELSE "crashed"

\* add_job_info reads one more sacct line
AddJobInfo(sacct) ==
    /\ pc = "add_job_info"
    /\ sacct_log' = Append(sacct_log, sacct)
    /\ \E reg \in {add_job_line(Current, sacct, show_usage)} :
           Ingested(reg, "add_job_info")
    /\ UNCHANGED <<pure_vars, show_usage, sinfo_log, gres_log, filters, output>>

\* add_node_info reads one more sinfo line
AddNodeInfo(sinfo) ==
    /\ pc \in {"add_job_info", "add_node_info"}
    /\ sinfo_log' = Append(sinfo_log, sinfo)
    /\ \E reg \in {add_node_line(Current, sinfo, show_usage)} :
           Ingested(reg, "add_node_info")
    /\ UNCHANGED <<pure_vars, show_usage, sacct_log, gres_log, filters, output>>

\* add_gpu_info reads one more gres.conf line
AddGpuInfo(gres) ==
    /\ pc \in {"add_job_info", "add_node_info", "add_gpu_info"}
    /\ gres_log' = Append(gres_log, gres)
    /\ \E reg \in {add_gpu_line(Current, gres)} :
           Ingested(reg, "add_gpu_info")
    /\ UNCHANGED <<pure_vars, show_usage, sacct_log, sinfo_log, filters, output>>

\* print_node_layout, called with the filters of the options given
PrintNodeLayout(args) ==
    /\ pc \in {"add_job_info", "add_node_info", "add_gpu_info"}
    /\ filters' = get_filters(args)
    /\ \E printed \in {print_node_layout(node_info, chassis_layout,
                                          get_filters(args), show_usage)} :
           /\ node_info' = printed.node_info
           /\ output' = [rows |-> printed.rows, error |-> printed.error]
           /\ pc' = IF printed.error = "none" THEN "done" ELSE "crashed"
    /\ UNCHANGED <<pure_vars, show_usage, chassis_layout, job_map, job_glyphs,
                   sacct_log, sinfo_log, gres_log>>

Next ==
    \/ \E sacct \in SacctLines : LinesRead < MaxLines /\ AddJobInfo(sacct)
    \/ \E sinfo \in SinfoLines : LinesRead < MaxLines /\ AddNodeInfo(sinfo)
    \/ \E gres \in GresLines : LinesRead < MaxLines /\ AddGpuInfo(gres)
    \/ \E args \in FilterArgs : PrintNodeLayout(args)

Spec == Init /\ [][Next]_vars

(***************************************************************************)
(* A run with --show job over a long sacct stream, long enough for the     *)
(* cycle of job glyphs to start over.  Line k names a job id not seen      *)
(* before (the ids are 1, 2, 3, ... in decimal), or, once in a run, job 1  *)
(* again; odd lines list c1n01, even lines c1n[01-02].                     *)
(***************************************************************************)
MaxJobLines == 64

JobLine(id, k) ==
    [JobID |-> Str(id), JobName |-> <<"s", "i", "m">>, User |-> <<"a", "l">>,
     Account |-> <<"l", "a", "b">>,
     NodeList |-> IF k % 2 = 1 THEN <<"c", "1", "n", "0", "1">>
                  ELSE <<"c", "1", "n", "[", "0", "1", "-", "0", "2", "]">>,
     Partition |-> <<"d", "a", "y">>]

JobIdsSeen == {sacct_log[k].JobID : k \in 1..Len(sacct_log)}

NextJobLines ==
    {JobLine(Cardinality(JobIdsSeen) + 1, Len(sacct_log) + 1)}
        \cup (IF Cardinality(JobIdsSeen) = Len(sacct_log) /\ Len(sacct_log) > 0
              THEN {JobLine(1, Len(sacct_log) + 1)} ELSE {})

InitJobs ==
    /\ Init
    /\ show_usage = "job"

NextJobs ==
    \/ \E sacct \in NextJobLines : Len(sacct_log) < MaxJobLines /\ AddJobInfo(sacct)
    \/ \E sinfo \in SinfoLines : Len(sinfo_log) < 1 /\ AddNodeInfo(sinfo)

SpecJobs == InitJobs /\ [][NextJobs]_vars

(***************************************************************************)
(* get_node_glyph on its own: a state tag, a usage fraction and a          *)
(* character set are drawn, then classified.                               *)
(***************************************************************************)
StateTags ==
    { <<"m", "i", "x", "e", "d">>,
      <<"m", "i", "x", "-">>,
      <<"m", "i">>,
      <<"a", "l", "l", "o", "c", "a", "t", "e", "d">>,
      <<"a", "l", "l", "o", "c">>,
      <<"i", "d", "l", "e">>,
      <<"i", "d", "l", "e", "~">>,
      <<"r", "e", "s", "e", "r", "v", "e", "d">>,
      <<"r", "e", "s", "v">>,
      <<"d", "o", "w", "n", "*">>,
      <<"d", "r", "a", "i", "n", "e", "d">>,
      <<>> }

\* sixteenths and twentieths hit every boundary and every midpoint of the
\* eighths and of the tenths; thirds hit neither
UsageDenominators == {3, 16, 20}

Usages == UNION { { <<n, d>> : n \in 0..d } : d \in UsageDenominators }

InitGlyph ==
    /\ glyph_call \in [state : StateTags, usage : Usages,
                       char_type : {char_types[k] : k \in 1..Len(char_types)}]
    /\ glyph_ret = <<>>
    /\ node_list = <<>>
    /\ expansion = NotRun
    /\ show_usage = "cpu"
    /\ node_info = <<>>
    /\ chassis_layout = <<>>
    /\ job_map = <<>>
    /\ job_glyphs = 0
    /\ sacct_log = <<>>
    /\ sinfo_log = <<>>
    /\ gres_log = <<>>
    /\ filters = <<>>
    /\ output = [rows |-> <<>>, error |-> "not run"]
    /\ pc = "not run"

Classify ==
    /\ glyph_ret = <<>>
    /\ glyph_ret' = get_node_glyph(glyph_call.state, glyph_call.usage,
                                   gen_state_glyphs(glyph_call.char_type),
                                   gen_usage_glyphs(glyph_call.char_type))
    /\ UNCHANGED <<node_list, expansion, glyph_call, run_vars>>

NextGlyph == Classify

SpecGlyph == InitGlyph /\ [][NextGlyph]_vars

(***************************************************************************)
(* The reference classifier.                                               *)
(***************************************************************************)
\* |x - y| as a fraction
Distance(x, y) == IF Less(x, y) THEN Minus(y, x) ELSE Minus(x, y)

\* the boundary closest to x, the smaller one of two equally close
RefNearest(bounds, x) ==
    LET B == {bounds[k] : k \in 1..Len(bounds)}
    IN  CHOOSE b \in B :
            \A c \in B :
                \/ Less(Distance(b, x), Distance(c, x))
                \/ SameValue(Distance(b, x), Distance(c, x)) /\ ~Less(c, b)

HasPrefix(state, word) ==
    Len(state) >= Len(word) /\ \A k \in 1..Len(word) : state[k] = word[k]

RefGlyph(state, usage, char_type) ==
    LET table == gen_usage_glyphs(char_type)
        near == RefNearest([k \in 1..Len(table) |-> table[k].value], usage)
    IN  CASE HasPrefix(state, mix) \/ HasPrefix(state, alloc) ->
                 (CHOOSE e \in {table[k] : k \in 1..Len(table)} : e.value = near).char
          [] HasPrefix(state, idle) -> gen_state_glyphs(char_type).idle
          [] HasPrefix(state, reserv) -> gen_state_glyphs(char_type).reserved
          [] OTHER -> gen_state_glyphs(char_type).down

(***************************************************************************)
(* Claims about the pure functions.                                        *)
(***************************************************************************)
c13n_list == <<"c", "1", "3", "n", "[", "0", "1", "-", "0", "3", ",", "0", "5", "]">>

\* C1: on every hostlist with balanced brackets whose segments are bracket-free
\* or of the form prefix[items], expand_node_list ends normally and yields
\* exactly the reference sequence: segments in order, items in order, each
\* range lo-hi in increasing order, zero-padded to the width of lo.
C1_ExpandIsReference ==
    (expansion # NotRun /\ InReferenceDomain(node_list))
        => expansion = Yielded(RefExpand(node_list))

\* C1 witness: c13n[01-03,05] has been expanded to c13n01, c13n02, c13n03, c13n05
C1_Witness ==
    /\ node_list = c13n_list
    /\ InReferenceDomain(node_list)
    /\ expansion = Yielded(<< <<"c", "1", "3", "n", "0", "1">>,
                              <<"c", "1", "3", "n", "0", "2">>,
                              <<"c", "1", "3", "n", "0", "3">>,
                              <<"c", "1", "3", "n", "0", "5">> >>)

\* C9: expansion of a hostlist with unbalanced brackets ends in a fatal
\* error, and yields no host name from the unbalanced segment.
C9_UnbalancedIsFatal ==
    (expansion # NotRun /\ ~Balanced(node_list)) => expansion.error # "none"

\* C7: get_node_glyph returns the reference classifier's glyph for every
\* state tag, usage fraction and character set: the closest boundary's glyph
\* for mix/alloc (the smaller boundary on a tie, the end boundary outside the
\* range), else the idle, reserved or down glyph whatever the fraction.
C7_GlyphIsReference ==
    glyph_ret # <<>>
        => glyph_ret = RefGlyph(glyph_call.state, glyph_call.usage, glyph_call.char_type)

\* C7 witness: utf8, an allocated node at 3/16 = 0.1875, the midpoint of the
\* boundaries 1/8 and 2/8, has been given the glyph of 1/8
C7_Witness ==
    /\ glyph_call.char_type = "utf8"
    /\ glyph_call.state = <<"a", "l", "l", "o", "c", "a", "t", "e", "d">>
    /\ glyph_call.usage = <<3, 16>>
    /\ glyph_ret = <<"U+2581">>

(***************************************************************************)
(* Claims about a run.                                                     *)
(***************************************************************************)
Rendered == pc = "done"

Ingesting == pc \in {"add_job_info", "add_node_info", "add_gpu_info"}

\* whether a piece of a printed line is wrapped in the styling escape
Styled(text) == Len(text) > 0 /\ text[1] = "ESC"

\* the glyph a piece of a printed line shows
Shown(text) == IF Styled(text) THEN SubSeq(text, 6, Len(text) - 4) ELSE text

\* the node print_node_layout looked up for column n of row r
Looked(r, n) == node_info[LayoutName(output.rows[r].chassis, n)]

AllColumns(P(_, _)) ==
    \A r \in 1..Len(output.rows) : \A n \in 1..Len(output.rows[r].line) : P(r, n)

SomeColumn(P(_, _)) ==
    \E r \in 1..Len(output.rows) : \E n \in 1..Len(output.rows[r].line) : P(r, n)

\* the values a filter lists, as a set
Listed(filt) == {filters[filt][k] : k \in 1..Len(filters[filt])}

DirectDimensions == {"partition", "feature", "gpu_type"}

\* C2: with a direct dimension (partition, feature, gpu_type) as the only
\* filter, a node is highlighted exactly when at least one of the listed values
\* is a member of the node's set for that dimension.
C2_AnyListedValueHighlights ==
    (Rendered /\ Cardinality(DOMAIN filters) = 1 /\ DOMAIN filters \subseteq DirectDimensions)
        => \A filt \in DOMAIN filters :
               AllColumns(LAMBDA r, n :
                   Styled(output.rows[r].line[n]) <=> (Listed(filt) \cap Looked(r, n)[filt] # {}))

\* whether the values listed for one dimension hold for a node, when the filter
\* set has no job_id constraint: some listed value is in the node's set, or is
\* an attribute of some job of the node
ConstraintHolds(node, filt) ==
    IF filt \in DirectDimensions THEN Listed(filt) \cap node[filt] # {}
    ELSE \E jid \in DOMAIN node.job_info : node.job_info[jid][filt] \in Listed(filt)

\* C3: with no mode selected the constraints are combined by OR: under a filter
\* set without a job_id constraint, each constraint listing one value, a node
\* is highlighted exactly when at least one active constraint holds for it.
C3_DefaultModeIsOr ==
    (Rendered /\ "job_id" \notin DOMAIN filters /\ \A filt \in DOMAIN filters : Len(filters[filt]) = 1)
        => AllColumns(LAMBDA r, n :
               Styled(output.rows[r].line[n])
                   <=> \E filt \in DOMAIN filters : ConstraintHolds(Looked(r, n), filt))

j123 == <<"1", "2", "3">>
j456 == <<"4", "5", "6">>
day == <<"d", "a", "y">>
batch == <<"b", "a", "t", "c", "h">>

HasJob(node, jid, part) ==
    jid \in DOMAIN node.job_info /\ node.job_info[jid].job_partition = part

\* the node with only the jobs the job_id filter names
OnlyNamedJobs(node) ==
    [node EXCEPT !.job_info =
        [jid \in DOMAIN node.job_info \cap Listed("job_id") |-> node.job_info[jid]]]

\* C4: under a filter set with a job_id constraint, the verdict on a node does
\* not depend on the node's jobs with other ids; under {job_id:[123],
\* job_partition:[day]} no node whose job 123 has job_partition batch is
\* highlighted, whatever other jobs it carries.
C4_JobIdScopesJobFilters ==
    (Rendered /\ "job_id" \in DOMAIN filters)
        => AllColumns(LAMBDA r, n :
               /\ Styled(output.rows[r].line[n])
                      = filter_node(OnlyNamedJobs(Looked(r, n)), filters).highlight
               /\ (/\ filters = [job_id |-> <<j123>>, job_partition |-> <<day>>]
                   /\ HasJob(Looked(r, n), j123, batch))
                      => ~Styled(output.rows[r].line[n]))

\* C4 witness: a node with job 123 (batch) and job 456 (day) was printed under
\* {job_id:[123], job_partition:[day]} and is not highlighted
C4_Witness ==
    /\ Rendered
    /\ filters = [job_id |-> <<j123>>, job_partition |-> <<day>>]
    /\ SomeColumn(LAMBDA r, n :
           /\ HasJob(Looked(r, n), j123, batch)
           /\ HasJob(Looked(r, n), j456, day)
           /\ ~Styled(output.rows[r].line[n]))

\* C5: when no filter dimension carries a value, no piece of any printed line
\* holds the styling escape.
C5_NoFilterNoHighlight ==
    (Rendered /\ DOMAIN filters = {})
        => AllColumns(LAMBDA r, n :
               \A k \in 1..Len(output.rows[r].line[n]) : output.rows[r].line[n][k] # "ESC")

\* C5 witness: a node with a partition and a job was printed with no filter
C5_Witness ==
    /\ Rendered
    /\ DOMAIN filters = {}
    /\ SomeColumn(LAMBDA r, n :
           Looked(r, n).partition # {} /\ DOMAIN Looked(r, n).job_info # {})

\* the names a hostlist expands to, as a set
Hosts(list) ==
    Eval(expand_node_list(list).hosts, LAMBDA hosts : {hosts[j] : j \in 1..Len(hosts)})

\* the node names the lines read so far name
NamedByLines ==
    {sinfo_log[k].HOSTNAMES : k \in 1..Len(sinfo_log)}
        \cup UNION {Hosts(sacct_log[k].NodeList) : k \in 1..Len(sacct_log)}
        \cup UNION {Hosts(gres_log[k].NodeName) : k \in 1..Len(gres_log)}

Absent == gen_state_glyphs(glyphs).not_a_node

\* C6: every chassis of chassis_layout gets one row of exactly
\* chassis_layout[chassis] columns, column n showing node n; a column whose
\* node no line named shows the absent glyph, twice with --show both, where
\* every column is two glyphs wide.
C6_RowWidth ==
    Rendered =>
        /\ {output.rows[r].chassis : r \in 1..Len(output.rows)} = DOMAIN chassis_layout
        /\ Len(output.rows) = Cardinality(DOMAIN chassis_layout)
        /\ \A r \in 1..Len(output.rows) :
               Len(output.rows[r].line) = chassis_layout[output.rows[r].chassis]
        /\ \A named \in {NamedByLines} :
               AllColumns(LAMBDA r, n :
                   /\ Shown(output.rows[r].line[n]) = Looked(r, n).glyph
                   /\ LayoutName(output.rows[r].chassis, n) \notin named
                          => Shown(output.rows[r].line[n])
                                 = (IF show_usage = "both" THEN Absent \o Absent ELSE Absent)
                   /\ show_usage = "both" => Len(Shown(output.rows[r].line[n])) = 2)

\* C6 witness: with --show both, a chassis with highest node number 3 and
\* column 2 named by no line was printed with the absent glyph twice in column 2
C6_Witness ==
    /\ Rendered
    /\ show_usage = "both"
    /\ \E r \in 1..Len(output.rows) :
           /\ Len(output.rows[r].line) = 3
           /\ LayoutName(output.rows[r].chassis, 2) \notin NamedByLines
           /\ LayoutName(output.rows[r].chassis, 1) \in NamedByLines
           /\ output.rows[r].line[2] = Absent \o Absent
           /\ output.rows[r].line[1] # Absent \o Absent

\* the interleavings of two streams, each kept in its own order
RECURSIVE Interleavings(_, _)
Interleavings(a, b) ==
    IF Len(a) = 0 THEN {[k \in 1..Len(b) |-> [stream |-> "sacct", line |-> b[k]]]}
    ELSE IF Len(b) = 0 THEN {[k \in 1..Len(a) |-> [stream |-> "sinfo", line |-> a[k]]]}
    ELSE {<<[stream |-> "sinfo", line |-> Head(a)]>> \o m : m \in Interleavings(Tail(a), b)}
         \cup {<<[stream |-> "sacct", line |-> Head(b)]>> \o m : m \in Interleavings(a, Tail(b))}

\* the registry after the lines of m, then the gres lines read
RECURSIVE IngestAll(_, _, _)
IngestAll(reg, m, k) ==
    IF k > Len(m) THEN reg
    ELSE Eval(IF m[k].stream = "sacct" THEN add_job_line(reg, m[k].line, show_usage)
              ELSE IF m[k].stream = "sinfo" THEN add_node_line(reg, m[k].line, show_usage)
              ELSE add_gpu_line(reg, m[k].line),
              LAMBDA next : IngestAll(next, m, k + 1))

Orders ==
    {m \o [k \in 1..Len(gres_log) |-> [stream |-> "gres", line |-> gres_log[k]]] :
        m \in Interleavings(sinfo_log, sacct_log)}

\* all sinfo lines read, then all sacct lines, then the gres lines
NodesFirst ==
    [k \in 1..Len(sinfo_log) |-> [stream |-> "sinfo", line |-> sinfo_log[k]]]
        \o [k \in 1..Len(sacct_log) |-> [stream |-> "sacct", line |-> sacct_log[k]]]
        \o [k \in 1..Len(gres_log) |-> [stream |-> "gres", line |-> gres_log[k]]]

\* C8: whatever the order in which the sinfo lines and the sacct lines read so
\* far are ingested (each stream in its own order), the registry and
\* chassis_layout are the ones this run, which reads the sacct lines first,
\* built; and what is printed is what is printed when the sinfo lines are
\* ingested first.
C8_OrderAgnostic ==
    /\ Ingesting =>
           \A reg \in {IngestAll(EmptyRegistry, m, 1) : m \in Orders} :
               /\ reg.node_info = node_info
               /\ reg.chassis_layout = chassis_layout
    /\ Rendered =>
           \A m \in {NodesFirst} :
               \A reg \in {IngestAll(EmptyRegistry, m, 1)} :
                   \A printed \in {print_node_layout(reg.node_info, reg.chassis_layout,
                                                     filters, show_usage)} :
                       printed.rows = output.rows

\* C8 witness: sacct and sinfo lines naming the same node have been read, so
\* that there are orders other than the run's own
C8_Witness ==
    /\ Ingesting
    /\ Len(sacct_log) > 0 /\ Len(sinfo_log) > 1
    /\ Cardinality(Orders) > 2
    /\ \E k \in 1..Len(sinfo_log) :
           DOMAIN node_info[sinfo_log[k].HOSTNAMES].job_info # {}

\* the job ids of the sacct lines read, in order of first appearance
RECURSIVE FirstAppearance(_, _, _)
FirstAppearance(log, k, ids) ==
    IF k > Len(log) THEN ids
    ELSE IF \E j \in 1..Len(ids) : ids[j] = log[k].JobID
    THEN FirstAppearance(log, k + 1, ids)
    ELSE FirstAppearance(log, k + 1, Append(ids, log[k].JobID))

\* whether a sacct line lists a node
Lists(sacct, name) ==
    Eval(expand_node_list(sacct.NodeList).hosts,
         LAMBDA hosts : \E j \in 1..Len(hosts) : hosts[j] = name)

\* the last of the first k sacct lines read that lists a node, 0 if none does
RECURSIVE LastListing(_, _)
LastListing(name, k) ==
    IF k = 0 THEN 0
    ELSE IF Lists(sacct_log[k], name) THEN k
    ELSE LastListing(name, k - 1)

\* C10: with --show job, the k-th distinct job id in order of first appearance
\* has glyph number ((k - 1) mod N) + 1 of the N job glyphs, in every state from
\* its first line on; every node some sacct line listed shows the glyph of the
\* job id of the last such line, also after sinfo lines were read.
C10_JobGlyphs ==
    (show_usage = "job" /\ pc # "crashed") =>
        LET order == FirstAppearance(sacct_log, 1, <<>>)
            N == Len(gen_job_glyphs)
        IN  /\ DOMAIN job_map = {order[k] : k \in 1..Len(order)}
            /\ \A k \in 1..Len(order) :
                   job_map[order[k]] = <<gen_job_glyphs[((k - 1) % N) + 1]>>
            /\ \A name \in DOMAIN node_info :
                   Eval(LastListing(name, Len(sacct_log)),
                        LAMBDA last :
                            IF last = 0 THEN node_info[name].glyph = Absent
                            ELSE node_info[name].glyph = job_map[sacct_log[last].JobID])

\* C10 witness: more distinct job ids than job glyphs were read, the id after
\* the last glyph was given the first glyph again, a node shows it, and a sinfo
\* line was read after that
C10_Witness ==
    /\ show_usage = "job"
    /\ Cardinality(DOMAIN job_map) > Len(gen_job_glyphs)
    /\ job_map[Str(Len(gen_job_glyphs) + 1)] = <<gen_job_glyphs[1]>>
    /\ job_map[Str(1)] = <<gen_job_glyphs[1]>>
    /\ Len(sinfo_log) > 0
    /\ \E name \in DOMAIN node_info :
           /\ LastListing(name, Len(sacct_log)) > 0
           /\ sacct_log[LastListing(name, Len(sacct_log))].JobID = Str(Len(gen_job_glyphs) + 1)
           /\ node_info[name].glyph = <<gen_job_glyphs[1]>>

\* the attributes a sacct line records for a job
Attributes(sacct) ==
    [job_name |-> sacct.JobName, user |-> sacct.User,
     account |-> sacct.Account, job_partition |-> sacct.Partition]

\* the job id, and for an id with the array separator also what precedes the
\* first separator
RecordKeys(job_id) ==
    {job_id} \cup
        {SubSeq(job_id, 1, k - 1) :
            k \in {k \in 1..Len(job_id) :
                      job_id[k] = "_" /\ \A j \in 1..(k - 1) : job_id[j] # "_"}}

\* what one more sacct line, read without an exception, does to the job maps
JobRecordStored ==
    (sacct_log' # sacct_log /\ pc' # "crashed") =>
        \A line \in {sacct_log'[Len(sacct_log')]} :
            \A listed \in {Hosts(line.NodeList)} :
                \A keys \in {RecordKeys(line.JobID)} :
                    /\ listed \subseteq DOMAIN node_info'
                    /\ \A n \in listed :
                           /\ keys \subseteq DOMAIN node_info'[n].job_info
                           /\ \A key \in keys :
                                  node_info'[n].job_info[key] = Attributes(line)
                           /\ \A key \in DOMAIN node_info'[n].job_info \ keys :
                                  /\ n \in DOMAIN node_info
                                  /\ key \in DOMAIN node_info[n].job_info
                                  /\ node_info'[n].job_info[key] = node_info[n].job_info[key]
                    /\ \A n \in DOMAIN node_info' \ listed :
                           /\ n \in DOMAIN node_info
                           /\ node_info'[n].job_info = node_info[n].job_info

\* C11: after a sacct line with job id J listing node n is read, n's job_info
\* holds the line's job name, user, account and partition under J and, when J
\* has the array separator, under what precedes the first separator, replacing
\* what was there; every other key of n and every other node's job_info are
\* as before.
C11_JobRecordStored == [][JobRecordStored]_vars

\* C11 witness: 123_4 then 123_5 were read for g02, and key 123 of g02 holds
\* the user of 123_5 while key 123_4 holds the user of 123_4
C11_Witness ==
    /\ Len(sacct_log) = 2
    /\ sacct_log[1].JobID = <<"1", "2", "3", "_", "4">>
    /\ sacct_log[2].JobID = <<"1", "2", "3", "_", "5">>
    /\ pc = "add_job_info"
    /\ node_info[<<"g", "0", "2">>].job_info[j123] = Attributes(sacct_log[2])
    /\ node_info[<<"g", "0", "2">>].job_info[sacct_log[1].JobID] = Attributes(sacct_log[1])
    /\ Attributes(sacct_log[1]) # Attributes(sacct_log[2])

\* the node numbers the sinfo lines read so far have for a chassis
Observed(chas) ==
    {split_node_name(sinfo_log[k].HOSTNAMES).node_num :
        k \in {k \in 1..Len(sinfo_log) :
                  split_node_name(sinfo_log[k].HOSTNAMES).chassis = chas}}

ChassisObserved ==
    {split_node_name(sinfo_log[k].HOSTNAMES).chassis : k \in 1..Len(sinfo_log)}

\* chassis_layout holds, for the chassis observed, the largest node number observed
LayoutIsMaxObserved ==
    pc # "crashed" =>
        /\ DOMAIN chassis_layout = ChassisObserved
        /\ \A chas \in DOMAIN chassis_layout :
               /\ chassis_layout[chas] \in Observed(chas)
               /\ \A i \in Observed(chas) : i <= chassis_layout[chas]

\* no step lowers a value or drops a chassis, and only a sinfo line changes
\* chassis_layout
LayoutStep ==
    /\ DOMAIN chassis_layout \subseteq DOMAIN chassis_layout'
    /\ \A chas \in DOMAIN chassis_layout : chassis_layout[chas] <= chassis_layout'[chas]
    /\ chassis_layout' # chassis_layout => sinfo_log' # sinfo_log

\* C12: in every state chassis_layout[chassis] is the largest node number
\* among the sinfo lines read so far for that chassis; no step lowers it, and
\* only reading a sinfo line changes chassis_layout.
C12_LayoutIsMaxObserved == [](LayoutIsMaxObserved) /\ [][LayoutStep]_vars

\* C13: for every host of a sinfo line read, with chassis and node number i >= 1
\* from split_node_name, the name print_node_layout builds for column i of the
\* chassis is the host name add_node_info stored the node under, and once the
\* layout is printed column i of the chassis's row shows the glyph of that node.
C13_CanonicalName ==
    pc # "crashed" =>
        \A k \in 1..Len(sinfo_log) :
            \A host \in {sinfo_log[k].HOSTNAMES} :
                \A name \in {split_node_name(host)} :
                    name.node_num >= 1 =>
                        /\ LayoutName(name.chassis, name.node_num) = host
                        /\ Rendered =>
                               \E r \in 1..Len(output.rows) :
                                   /\ output.rows[r].chassis = name.chassis
                                   /\ Shown(output.rows[r].line[name.node_num])
                                          = node_info[host].glyph

\* what the filter leaves of a node: its job_info and its three sets
Filtered(node) ==
    [job_info |-> node.job_info, partition |-> node.partition,
     feature |-> node.feature, gpu_type |-> node.gpu_type]

\* in the step that prints the layout, every node print_node_layout looked up
\* has the job_info and sets it had before the step (those of a new node, if
\* the lookup made it), and filter_node on the node as it is after the step
\* gives the verdict that was printed
FilterLeavesNode ==
    (pc' = "done" /\ pc # "done") =>
        /\ \A name \in DOMAIN node_info' :
               Filtered(node_info'[name]) = Filtered(Node(node_info, name))
        /\ DOMAIN filters' # {} =>
               \A r \in 1..Len(output'.rows) :
                   \A n \in 1..Len(output'.rows[r].line) :
                       \A name \in {LayoutName(output'.rows[r].chassis, n)} :
                           filter_node(node_info'[name], filters').highlight
                               = Styled(output'.rows[r].line[n])

\* C14: filter_node does not change the registry: after the layout is printed
\* under any filter set, every node has the job_info, partition, feature and
\* gpu_type it had before, and a second evaluation of the filter on a node
\* gives the verdict of the first.
C14_FilterIsReadOnly == [][FilterLeavesNode]_vars

====
